---- MODULE Spec2Model ----
(***************************************************************************)
(* Model of the query-routing agent of backend/rag_logic.py and of the     *)
(* POST /chat handler of backend/main.py.                                  *)
(*                                                                         *)
(* Program text (classifier replies, decisions, node names, answers, error *)
(* messages) is a sequence of one-character strings, so that strip(),      *)
(* lower() and the f-string concatenations are computed, not assumed.      *)
(* Text is over ASCII and the white space of Unicode; a character a TLA+   *)
(* string cannot hold is written as its Python escape, "\\x0b" for '\x0b'.  *)
(* Python dicts are functions; dict.get is dict_get.                       *)
(***************************************************************************)
EXTENDS Integers, Sequences, FiniteSets, TLC

VARIABLES
    vectorstore,  \* module-level Chroma store: sequence of Documents
    classifier,   \* the routing model: prompt -> set of replies it may give
    state,        \* state[r]: AgentState of the run serving request r
    goto,         \* goto[r]: node the graph engine runs next for r
    pc,           \* pc[r]: IDLE, START, ROUTED, DONE or RAISED
    visited,      \* visited[r]: nodes entered by the run, in order
    calls,        \* calls[r]: external calls issued by the run, with replies
    writes,       \* writes[r]: state updates applied in the run, in order
    response,     \* response[r]: what POST /chat answered
    completed,    \* (query, decision) of the runs that returned a record, in order
    messages,     \* chat UI: st.session_state.messages
    event,        \* chat UI: the widget event that started the last script run
    script        \* chat UI: idle, or waiting: a run is between its two appends

vars == <<vectorstore, classifier, state, goto, pc, visited, calls, writes,
          response, completed, messages, event, script>>

----------------------------------------------------------------------------
(* Bounds of the model *)

MaxResults == 2

NReq == 2

MaxRuns == 2

MaxTurns == 2

----------------------------------------------------------------------------
(* Text constants *)

RagSearch == <<"r","a","g","_","s","e","a","r","c","h">>

WebSearch == <<"w","e","b","_","s","e","a","r","c","h">>

Router == <<"r","o","u","t","e","r">>

END == <<"_","_","e","n","d","_","_">>

ErrorPrefix == <<"E","r","r","o","r","e"," ","d","u","r","a","n","t","e"," ","l","a"," ","r","i","c","e","r","c","a"," ","w","e","b",":"," ">>

DetailPrefix == <<"E","r","r","o","r","e"," ","i","n","t","e","r","n","o"," ","d","e","l"," ","s","e","r","v","e","r",":"," ">>

UpperLetters == <<"A","B","C","D","E","F","G","H","I","J","K","L","M","N","O","P","Q","R","S","T","U","V","W","X","Y","Z">>

LowerLetters == <<"a","b","c","d","e","f","g","h","i","j","k","l","m","n","o","p","q","r","s","t","u","v","w","x","y","z">>

(* The characters c with c.isspace(): the ones str.strip() removes *)
Whitespace ==
    {" ", "\t", "\n", "\r", "\f", "\\x0b", "\\x1c", "\\x1d", "\\x1e", "\\x1f", "\\x85", "\\xa0",
     "\\u1680", "\\u2000", "\\u2001", "\\u2002", "\\u2003", "\\u2004", "\\u2005", "\\u2006",
     "\\u2007", "\\u2008", "\\u2009", "\\u200a", "\\u2028", "\\u2029", "\\u202f", "\\u205f",
     "\\u3000"}

(* Replies the routing model may give *)
Maybe == <<"m","a","y","b","e">>

RagUpperSpace == <<"R","A","G","_","S","E","A","R","C","H"," ">>

WebMixedPadded == <<" ","W","e","b","_","S","e","a","r","c","h","\n">>

WebControlPadded == <<"\\x1c","w","e","b","_","s","e","a","r","c","h","\\x0b">>

RagNoBreakPadded == <<"\\xa0","r","a","g","_","s","e","a","r","c","h","\\x1f","\\u2028">>

WebInnerSpace == <<"w","e","b","\\x0b","s","e","a","r","c","h">>

WebExtraWords == <<"w","e","b","_","s","e","a","r","c","h"," ","p","l","e","a","s","e">>

WebPartial == <<"w","e","b">>

ClassifierOutputs ==
    {RagSearch, WebSearch, Maybe, <<>>, RagUpperSpace, WebMixedPadded,
     WebControlPadded, RagNoBreakPadded, WebInnerSpace, WebExtraWords, WebPartial}

AnswerText == <<"o","k">>

TimeoutText == <<"t","i","m","e","o","u","t">>

Queries == {"What is FastAPI?", "latest AI news"}

Urls == {"https://a.example", "https://b.example"}

----------------------------------------------------------------------------
(* Python built-ins *)

lower_char(c) ==
    IF \E i \in 1..Len(UpperLetters) : UpperLetters[i] = c
    THEN LowerLetters[CHOOSE i \in 1..Len(UpperLetters) : UpperLetters[i] = c]
    ELSE c

lower(s) == [i \in 1..Len(s) |-> lower_char(s[i])]

RECURSIVE lstrip(_)
lstrip(s) ==
    IF s # <<>> /\ Head(s) \in Whitespace THEN lstrip(Tail(s)) ELSE s

RECURSIVE rstrip(_)
rstrip(s) ==
    IF s # <<>> /\ s[Len(s)] \in Whitespace
    THEN rstrip(SubSeq(s, 1, Len(s) - 1))
    ELSE s

strip(s) == rstrip(lstrip(s))

dict_get(d, key, default) == IF key \in DOMAIN d THEN d[key] ELSE default

----------------------------------------------------------------------------
(* External calls: a call record holds the service, whether it returned,   *)
(* the text it returned (or str(e) of the exception) and the data returned *)

NoCall == [svc |-> "none", ok |-> FALSE, text |-> <<>>, data |-> <<>>]

Returned(svc, text, data) == [svc |-> svc, ok |-> TRUE, text |-> text, data |-> data]

Raised(svc, err) == [svc |-> svc, ok |-> FALSE, text |-> err, data |-> <<>>]

(* llm.invoke: one of the given contents, or an exception *)
llm_invoke(contents, errors) ==
    {Returned("llm", c, <<>>) : c \in contents} \cup {Raised("llm", e) : e \in errors}

Document(i, src) == [page_content |-> i, metadata |-> [source |-> src]]

(* The passages of the store: page_content i stands for the text of the    *)
(* i-th sample document                                                    *)
sample_documents ==
    <<Document(1, "python_intro.txt"),
      Document(2, "fastapi_docs.txt"),
      Document(3, "langgraph_guide.txt"),
      Document(4, "ml_basics.txt"),
      Document(5, "chroma_overview.txt")>>

(* Every sample document is shorter than chunk_size, so split_documents    *)
(* yields it whole and the store holds one passage per document            *)
initialize_vector_store == sample_documents

(* Sequences over 1..n without repetition, of length m *)
Rankings(n, m) ==
    {f \in [1..m -> 1..n] : \A i, j \in 1..m : i # j => f[i] # f[j]}

Min(a, b) == IF a < b THEN a ELSE b

(* Chroma similarity search: the k most similar passages, best first; the  *)
(* similarity order of a query is not determined by the program            *)
similarity_search(store, k, anyRank) ==
    LET m == Min(Len(store), k)
        ranks == IF anyRank THEN Rankings(Len(store), m) ELSE {[i \in 1..m |-> i]}
    IN  {[i \in 1..m |-> store[f[i]]] : f \in ranks}

K == 3

(* Faulty variant: search_kwargs dropped, the retriever's default k = 4 *)
retriever_invoke_default_k(store, E) ==
    {Returned("store", <<>>, docs) : docs \in similarity_search(store, K + 1, E.anyRank)}
        \cup {Raised("store", e) : e \in E.errors}

retriever_invoke(store, E) ==
    {Returned("store", <<>>, docs) : docs \in similarity_search(store, K, E.anyRank)}
        \cup {Raised("store", e) : e \in E.errors}

tavily_search(E) ==
    {Returned("tavily", <<>>, d) : d \in E.results} \cup {Raised("tavily", e) : e \in E.errors}

----------------------------------------------------------------------------
(* Graph nodes.  A node returns a Command, or raises. *)

Command(to, update) == [raised |-> FALSE, error |-> <<>>, goto |-> to, update |-> update]

Raise(err) == [raised |-> TRUE, error |-> err, goto |-> <<>>, update |-> <<>>]

SystemPrompt == "router_system_prompt"

(* Faulty variant: the prompt carries memory of earlier turns *)
router_messages_memory(s) ==
    <<[role |-> "system", content |-> SystemPrompt],
      [role |-> "human", content |-> s.query]>>
        \o (IF completed = <<>> THEN <<>> ELSE <<[role |-> "memory", content |-> "previous turns"]>>)

router_messages(s) ==
    <<[role |-> "system", content |-> SystemPrompt],
      [role |-> "human", content |-> s.query]>>

(* Faulty variant: the reply is ignored *)
router_node_always_default(s, reply) ==
    IF ~reply.ok THEN Raise(reply.text)
    ELSE Command(RagSearch, [decision |-> RagSearch])

(* Faulty variant: the fallback is the other label *)
router_node_default_web(s, reply) ==
    IF ~reply.ok THEN Raise(reply.text)
    ELSE LET decision == lower(strip(reply.text))
             validated == IF decision \notin {RagSearch, WebSearch} THEN WebSearch ELSE decision
         IN  Command(validated, [decision |-> validated])

(* Faulty variant: the normalised reply is used without validation *)
router_node_unvalidated(s, reply) ==
    IF ~reply.ok THEN Raise(reply.text)
    ELSE LET decision == lower(strip(reply.text))
         IN  Command(decision, [decision |-> decision])

router_node(s, reply) ==
    IF ~reply.ok THEN Raise(reply.text)
    ELSE LET decision == lower(strip(reply.text))
             validated == IF decision \notin {RagSearch, WebSearch} THEN RagSearch ELSE decision
         IN  Command(validated, [decision |-> validated])

doc_sources(relevant_docs) ==
    [i \in 1..Len(relevant_docs) |-> dict_get(relevant_docs[i].metadata, "source", "unknown")]

(* Faulty variant: the responder hands control back to the router *)
rag_search_node_loop(s, search, synth) ==
    IF ~search.ok THEN Raise(search.text)
    ELSE IF ~synth.ok THEN Raise(synth.text)
    ELSE Command(Router, [result |-> synth.text, documents |-> doc_sources(search.data)])

(* Faulty variant: failures are caught as on the web-search path *)
rag_search_node_caught(s, search, synth) ==
    IF ~search.ok THEN Command(END, [result |-> ErrorPrefix \o search.text, documents |-> <<>>])
    ELSE IF ~synth.ok THEN Command(END, [result |-> ErrorPrefix \o synth.text, documents |-> <<>>])
    ELSE Command(END, [result |-> synth.text, documents |-> doc_sources(search.data)])

rag_search_node(s, search, synth) ==
    IF ~search.ok THEN Raise(search.text)
    ELSE IF ~synth.ok THEN Raise(synth.text)
    ELSE Command(END, [result |-> synth.text, documents |-> doc_sources(search.data)])

(* Faulty variant: the URLs come out in reverse order *)
result_urls_reversed(search_results) ==
    LET results == dict_get(search_results, "results", <<>>)
        n == Len(results)
    IN  [i \in 1..n |-> dict_get(results[n + 1 - i], "url", "N/A")]

result_urls(search_results) ==
    LET results == dict_get(search_results, "results", <<>>)
    IN  [i \in 1..Len(results) |-> dict_get(results[i], "url", "N/A")]

(* Faulty variant: the error path rewrites the decision *)
web_search_node_relabels(s, search, synth) ==
    IF ~search.ok
    THEN Command(END, [decision |-> <<>>, result |-> ErrorPrefix \o search.text, documents |-> <<>>])
    ELSE IF ~synth.ok
    THEN Command(END, [decision |-> <<>>, result |-> ErrorPrefix \o synth.text, documents |-> <<>>])
    ELSE Command(END, [result |-> synth.text, documents |-> result_urls(search.data)])

(* Faulty variant: the try block ends after the provider call *)
web_search_node_narrow_try(s, search, synth) ==
    IF ~search.ok
    THEN Command(END, [result |-> ErrorPrefix \o search.text, documents |-> <<>>])
    ELSE IF ~synth.ok THEN Raise(synth.text)
    ELSE Command(END, [result |-> synth.text, documents |-> result_urls(search.data)])

(* Faulty variant: no try/except around the provider and synthesis calls *)
web_search_node_uncaught(s, search, synth) ==
    IF ~search.ok THEN Raise(search.text)
    ELSE IF ~synth.ok THEN Raise(synth.text)
    ELSE Command(END, [result |-> synth.text, documents |-> result_urls(search.data)])

web_search_node(s, search, synth) ==
    IF ~search.ok
    THEN Command(END, [result |-> ErrorPrefix \o search.text, documents |-> <<>>])
    ELSE IF ~synth.ok
    THEN Command(END, [result |-> ErrorPrefix \o synth.text, documents |-> <<>>])
    ELSE Command(END, [result |-> synth.text, documents |-> result_urls(search.data)])

----------------------------------------------------------------------------
(* run_agent and POST /chat *)

initial_state(query) ==
    [query |-> query, decision |-> <<>>, result |-> <<>>, documents |-> <<>>]

merge(s, update) ==
    [key \in DOMAIN s |-> IF key \in DOMAIN update THEN update[key] ELSE s[key]]

(* The engine applies a node's update to the state of the run it belongs to *)
(* Faulty variant: one state object shared by all runs *)
apply_update_shared(st, r, update) ==
    [x \in DOMAIN st |-> merge(st[x], update)]

apply_update(st, r, update) ==
    [st EXCEPT ![r] = merge(st[r], update)]

run_agent_response(final_state) ==
    [query |-> final_state.query,
     decision |-> final_state.decision,
     result |-> final_state.result,
     sources |-> final_state.documents]

NoResponse == [code |-> 0, body |-> <<>>, detail |-> <<>>]

ChatResponse(agent_response) ==
    [code |-> 200,
     body |-> [query |-> agent_response.query,
               decision |-> agent_response.decision,
               result |-> agent_response.result,
               sources |-> agent_response["sources"],
               status |-> "success"],
     detail |-> <<>>]

HTTPException(err) ==
    [code |-> 500, body |-> <<>>, detail |-> DetailPrefix \o err]

----------------------------------------------------------------------------
(* Environments: what the external services may answer *)

FullEnv ==
    [queries |-> Queries,
     errors  |-> {<<>>, TimeoutText},
     answers |-> {<<>>, AnswerText},
     results |-> {<<>>} \cup
                 {[results |-> rs] : rs \in UNION {[1..n -> {[url |-> u, content |-> "snippet"] : u \in Urls}
                                                            \cup {[content |-> "snippet"]}] : n \in 0..MaxResults}},
     anyRank |-> TRUE,
     reruns  |-> 0]

ConcEnv ==
    [queries |-> Queries,
     errors  |-> {TimeoutText},
     answers |-> {AnswerText},
     results |-> {[results |-> <<[url |-> "https://a.example", content |-> "snippet"]>>],
                  [results |-> <<[url |-> "https://b.example", content |-> "snippet"],
                                 [url |-> "https://a.example", content |-> "snippet"]>>]},
     anyRank |-> FALSE,
     reruns  |-> 0]

LiveEnv ==
    [queries |-> {"latest AI news"},
     errors  |-> {TimeoutText},
     answers |-> {AnswerText},
     results |-> {[results |-> <<[url |-> "https://a.example", content |-> "snippet"]>>]},
     anyRank |-> FALSE,
     reruns  |-> 0]

DetEnv ==
    [queries |-> Queries,
     errors  |-> {TimeoutText},
     answers |-> {AnswerText},
     results |-> {[results |-> <<[url |-> "https://a.example", content |-> "snippet"]>>]},
     anyRank |-> FALSE,
     reruns  |-> MaxRuns]

(* The message lists the routing model can be asked about *)
RouterPrompts ==
    {<<[role |-> "system", content |-> SystemPrompt], [role |-> "human", content |-> q]>> \o m :
        q \in Queries, m \in {<<>>, <<[role |-> "memory", content |-> "previous turns"]>>}}

----------------------------------------------------------------------------
(* State machine *)

InitRuns(Reqs) ==
    /\ state = [r \in Reqs |-> initial_state("")]
    /\ goto = [r \in Reqs |-> <<>>]
    /\ pc = [r \in Reqs |-> "IDLE"]
    /\ visited = [r \in Reqs |-> <<>>]
    /\ calls = [r \in Reqs |-> <<>>]
    /\ writes = [r \in Reqs |-> <<>>]
    /\ response = [r \in Reqs |-> NoResponse]
    /\ completed = <<>>
    /\ messages = <<>>
    /\ event = "none"
    /\ script = "idle"

Init ==
    /\ vectorstore = initialize_vector_store
    /\ classifier = [p \in RouterPrompts |-> ClassifierOutputs]
    /\ InitRuns({1})

(* POST /chat arrives: chat() calls run_agent(), which builds the initial  *)
(* state and starts the graph at its START edge                            *)
chat(r, E) ==
    /\ pc[r] = "IDLE" \/ (pc[r] \in {"DONE", "RAISED"} /\ Len(completed) < E.reruns)
    /\ \E query \in E.queries :
          state' = [state EXCEPT ![r] = initial_state(query)]
    /\ goto' = [goto EXCEPT ![r] = Router]
    /\ pc' = [pc EXCEPT ![r] = "START"]
    /\ visited' = [visited EXCEPT ![r] = <<>>]
    /\ calls' = [calls EXCEPT ![r] = <<>>]
    /\ writes' = [writes EXCEPT ![r] = <<>>]
    /\ response' = [response EXCEPT ![r] = NoResponse]
    /\ UNCHANGED <<vectorstore, classifier, completed, messages, event, script>>

(* Node `node` of run r ran, having issued `issued`, and returned or       *)
(* raised `cmd`; when the graph ends, run_agent returns and chat() answers *)
Finish(r, node, issued, cmd) ==
    /\ visited' = [visited EXCEPT ![r] = Append(@, node)]
    /\ calls' = [calls EXCEPT ![r] = @ \o issued]
    /\ IF cmd.raised
       THEN /\ pc' = [pc EXCEPT ![r] = "RAISED"]
            /\ goto' = [goto EXCEPT ![r] = <<>>]
            /\ response' = [response EXCEPT ![r] = HTTPException(cmd.error)]
            /\ UNCHANGED <<state, writes, completed>>
       ELSE /\ state' = apply_update(state, r, cmd.update)
            /\ writes' = [writes EXCEPT ![r] = Append(@, [node |-> node, keys |-> DOMAIN cmd.update])]
            /\ goto' = [goto EXCEPT ![r] = cmd.goto]
            /\ IF cmd.goto = END
               THEN /\ pc' = [pc EXCEPT ![r] = "DONE"]
                    /\ response' = [response EXCEPT ![r] = ChatResponse(run_agent_response(state'[r]))]
                    /\ completed' = Append(completed,
                           [query |-> state'[r].query, decision |-> state'[r].decision])
               ELSE /\ pc' = [pc EXCEPT ![r] = "ROUTED"]
                    /\ UNCHANGED <<response, completed>>
    /\ UNCHANGED <<vectorstore, classifier, messages, event, script>>

router_step(r, E) ==
    /\ goto[r] = Router
    /\ \E reply \in llm_invoke(classifier[router_messages(state[r])], E.errors) :
          Finish(r, Router, <<reply>>, router_node(state[r], reply))

rag_search_step(r, E) ==
    /\ goto[r] = RagSearch
    /\ \E search \in retriever_invoke(vectorstore, E) :
          IF search.ok
          THEN \E synth \in llm_invoke(E.answers, E.errors) :
                  Finish(r, RagSearch, <<search, synth>>, rag_search_node(state[r], search, synth))
          ELSE Finish(r, RagSearch, <<search>>, rag_search_node(state[r], search, NoCall))

(* Faulty variant: a failed provider call is issued a second time *)
web_search_step_retry(r, E) ==
    /\ goto[r] = WebSearch
    /\ \E search \in tavily_search(E) :
          IF search.ok
          THEN \E synth \in llm_invoke(E.answers, E.errors) :
                  Finish(r, WebSearch, <<search, synth>>, web_search_node(state[r], search, synth))
          ELSE \E again \in tavily_search(E) :
                  /\ ~again.ok
                  /\ Finish(r, WebSearch, <<search, again>>, web_search_node(state[r], again, NoCall))

web_search_step(r, E) ==
    /\ goto[r] = WebSearch
    /\ \E search \in tavily_search(E) :
          IF search.ok
          THEN \E synth \in llm_invoke(E.answers, E.errors) :
                  Finish(r, WebSearch, <<search, synth>>, web_search_node(state[r], search, synth))
          ELSE Finish(r, WebSearch, <<search>>, web_search_node(state[r], search, NoCall))

Step(E, Reqs) ==
    \E r \in Reqs :
        \/ chat(r, E)
        \/ router_step(r, E)
        \/ rag_search_step(r, E)
        \/ web_search_step(r, E)

(* One request, every reply the services can give *)
Next == Step(FullEnv, {1})

Spec == Init /\ [][Next]_vars

(* NReq requests served concurrently, their node steps interleaved *)
InitConc ==
    /\ vectorstore = initialize_vector_store
    /\ classifier = [p \in RouterPrompts |-> {RagSearch, WebSearch, Maybe}]
    /\ InitRuns(1..NReq)

NextConc == Step(ConcEnv, 1..NReq)

SpecConc == InitConc /\ [][NextConc]_vars

(* One request after the other, the routing model deterministic: the same  *)
(* prompt always gets the same reply                                       *)
InitDet ==
    /\ vectorstore = initialize_vector_store
    /\ classifier \in [RouterPrompts -> {{c} : c \in {RagSearch, WebSearch, Maybe}}]
    /\ InitRuns({1})

NextDet == Step(DetEnv, {1})

SpecDet == InitDet /\ [][NextDet]_vars

----------------------------------------------------------------------------
(* Chat UI (frontend/app.py).  Text is a sequence of tokens: characters,   *)
(* or whole literals of the source; emoji and the backquote are written   *)
(* as ASCII tags.                                                          *)

None == [some |-> FALSE, value |-> [type |-> "NoneType", items |-> <<>>]]

Some(d) == [some |-> TRUE, value |-> d]

(* Python truth value of what send_query_to_backend returned *)
truthy(x) == x.some /\ DOMAIN x.value.items # {}

(* What response.json() yields: a dict or a list *)
json_dict(d) == [type |-> "dict", items |-> d]

json_list(l) == [type |-> "list", items |-> l]

(* What requests.post does: a response with a status code and a JSON body, *)
(* or an exception                                                         *)
HttpResponse(code, body) == [kind |-> "response", status_code |-> code, json |-> body]

HttpFailure(kind) == [kind |-> kind, status_code |-> 0, json |-> json_dict(<<>>)]

send_query_to_backend(post) ==
    IF post.kind = "response"
    THEN IF post.status_code = 200 THEN Some(post.json) ELSE None
    ELSE None

str_int(i) == <<"0","1","2","3","4","5","6","7","8","9">>[i + 1]

RECURSIVE source_lines(_, _)
source_lines(sources, i) ==
    IF i > Len(sources) THEN <<>>
    ELSE <<str_int(i), ". [bq]", sources[i], "[bq]\n">> \o source_lines(sources, i + 1)

(* response_data.get raises AttributeError when the body is no dict *)
format_response(response_data) ==
    IF response_data.type # "dict" THEN Raised("format_response", <<"AttributeError">>)
    ELSE
    LET result == dict_get(response_data.items, "result", <<"Nessuna risposta disponibile">>)
        decision == dict_get(response_data.items, "decision", <<"unknown">>)
        sources == dict_get(response_data.items, "sources", <<>>)
        emoji == IF decision = RagSearch THEN "[books]" ELSE "[globe]"
        tool_name == IF decision = RagSearch THEN "RAG (Documenti Interni)" ELSE "Web Search"
    IN  Returned("format_response",
            result \o <<"\n", "\n">> \o <<"---\n">>
                \o <<emoji, " **Metodo usato:** ", tool_name, "\n">>
                \o (IF sources # <<>> THEN <<"\n**[clip] Fonti:**\n">> \o source_lines(sources, 1) ELSE <<>>),
            <<>>)

error_msg == <<"[x] Impossibile ottenere una risposta. Riprova.">>

(* The "Process query" block up to the call of the backend *)
process_query_asks(msgs, query_to_send) ==
    Append(msgs, [role |-> "user", content |-> <<query_to_send>>])

(* The "Process query" block from the reply of the backend on; nothing     *)
(* catches an exception of format_response, which ends the script run      *)
process_query_answers(msgs, response_data) ==
    IF truthy(response_data)
    THEN LET formatted_response == format_response(response_data.value)
         IN  IF formatted_response.ok
             THEN Append(msgs, [role |-> "assistant", content |-> formatted_response.text])
             ELSE msgs
    ELSE Append(msgs, [role |-> "assistant", content |-> error_msg])

(* Queries of the example buttons, and a typed one *)
UiQueries ==
    {"Cos'e' LangGraph?", "Quali sono le ultime notizie sull'intelligenza artificiale?",
     "Come funziona FastAPI?", "typed question"}

(* What POST /chat can come back with *)
BackendOutcomes ==
    {HttpResponse(200, json_dict(ChatResponse([query |-> "q", decision |-> RagSearch, result |-> AnswerText,
                                     sources |-> <<"fastapi_docs.txt", "python_intro.txt", "chroma_overview.txt">>]).body)),
     HttpResponse(200, json_dict(ChatResponse([query |-> "q", decision |-> WebSearch, result |-> ErrorPrefix,
                                     sources |-> <<>>]).body)),
     HttpResponse(200, json_dict(<<>>)),
     HttpResponse(200, json_list(<<"x">>)),
     HttpResponse(200, json_list(<<>>)),
     HttpResponse(500, json_dict([detail |-> DetailPrefix \o TimeoutText])),
     HttpFailure("Timeout"),
     HttpFailure("ConnectionError"),
     HttpFailure("Exception")}

BackendUnchanged ==
    UNCHANGED <<vectorstore, classifier, state, goto, pc, visited, calls, writes,
                response, completed>>

(* A script run started by an example button or by the chat input: it      *)
(* appends the user message and waits in requests.post.  The event stops   *)
(* a run that is still waiting, which then appends nothing more.           *)
ui_submit ==
    /\ Len(messages) + 2 <= 2 * MaxTurns
    /\ \E query_to_send \in UiQueries :
          messages' = process_query_asks(messages, query_to_send)
    /\ event' = "submit"
    /\ script' = "waiting"
    /\ BackendUnchanged

(* requests.post returns or raises and the waiting run goes on to its end *)
ui_respond ==
    /\ script = "waiting"
    /\ \E post \in BackendOutcomes :
          messages' = process_query_answers(messages, send_query_to_backend(post))
    /\ script' = "idle"
    /\ UNCHANGED event
    /\ BackendUnchanged

(* A script run started by the clear button, which stops a run that is     *)
(* still waiting; st.rerun() ends it                                       *)
ui_clear ==
    /\ messages' = <<>>
    /\ event' = "clear"
    /\ script' = "idle"
    /\ BackendUnchanged

InitUI ==
    /\ vectorstore = initialize_vector_store
    /\ classifier = [p \in RouterPrompts |-> ClassifierOutputs]
    /\ InitRuns({1})

NextUI == ui_submit \/ ui_respond \/ ui_clear

SpecUI == InitUI /\ [][NextUI]_vars

(* Concurrent requests whose external calls all return or raise: the node *)
(* a run is waiting to execute is eventually executed                      *)
NextLive == Step(LiveEnv, 1..NReq)

Fairness ==
    \A r \in 1..NReq :
        /\ WF_vars(router_step(r, LiveEnv))
        /\ WF_vars(rag_search_step(r, LiveEnv))
        /\ WF_vars(web_search_step(r, LiveEnv))

SpecLive == InitConc /\ [][NextLive]_vars /\ Fairness

----------------------------------------------------------------------------
(* Properties *)

Runs == DOMAIN pc

Labels == {RagSearch, WebSearch}

(* The router's language-model call of run r has returned *)
Classified(r) == Len(calls[r]) >= 1 /\ calls[r][1].ok

ClassifierOutput(r) == calls[r][1].text

(* C1: whenever the classifier's output is exactly rag_search or exactly   *)
(* web_search, the record run_agent returns has that label as decision.    *)
C1_ExactLabelIsDecision ==
    \A r \in Runs :
        (pc[r] = "DONE" /\ Classified(r) /\ ClassifierOutput(r) \in Labels)
            => /\ response[r].code = 200
               /\ response[r].body.decision = ClassifierOutput(r)

C1_Witness ==
    \E r \in Runs :
        /\ pc[r] = "DONE"
        /\ Classified(r)
        /\ ClassifierOutput(r) = WebSearch
        /\ response[r].body.decision = WebSearch

(* C2: whenever the classifier's output, trimmed and lowercased, is not    *)
(* one of the two labels (partial matches, extra words, empty output), the *)
(* router sets decision to rag_search and raises nothing, and the node     *)
(* dispatched is the retrieval responder; so it is for the outputs         *)
(* "maybe", "" and "RAG_SEARCH ".                                          *)
C2_Defaulted(r) ==
    /\ Len(visited[r]) >= 1
    /\ visited[r][1] = Router
    /\ state[r].decision = RagSearch
    /\ pc[r] = "RAISED" => Len(visited[r]) >= 2
    /\ Len(visited[r]) = 1 => pc[r] = "ROUTED" /\ goto[r] = RagSearch
    /\ Len(visited[r]) >= 2 => visited[r][2] = RagSearch
    /\ pc[r] = "DONE" => response[r].code = 200 /\ response[r].body.decision = RagSearch

C2_NonMatchingDefaultsToRetrieval ==
    \A r \in Runs :
        /\ (Classified(r) /\ lower(strip(ClassifierOutput(r))) \notin Labels) => C2_Defaulted(r)
        /\ (Classified(r) /\ ClassifierOutput(r) \in {Maybe, <<>>, RagUpperSpace}) => C2_Defaulted(r)

C2_Witness ==
    \E r \in Runs :
        /\ Classified(r)
        /\ ClassifierOutput(r) = WebExtraWords
        /\ visited[r] = <<Router, RagSearch>>
        /\ pc[r] = "DONE"
        /\ response[r].body.decision = RagSearch


(* C3: the router runs first and once, then exactly one responder runs     *)
(* once, the one named by the decision the router set, and the run is      *)
(* DONE; the states come in the order START, ROUTED, DONE, never           *)
(* backwards, and nothing happens to a run that is DONE.                   *)
C3_Shape(r) ==
    /\ pc[r] \in {"IDLE", "START"} => visited[r] = <<>>
    /\ pc[r] = "START" => goto[r] = Router
    /\ pc[r] = "ROUTED" =>
          /\ visited[r] = <<Router>>
          /\ state[r].decision \in Labels
          /\ goto[r] = state[r].decision
    /\ pc[r] = "DONE" =>
          /\ state[r].decision \in Labels
          /\ visited[r] = <<Router, state[r].decision>>
          /\ goto[r] = END
    /\ pc[r] = "RAISED" =>
          \/ visited[r] = <<Router>>
          \/ state[r].decision \in Labels /\ visited[r] = <<Router, state[r].decision>>

C3_Order(r) ==
    /\ pc'[r] # pc[r] =>
          <<pc[r], pc'[r]>> \in {<<"IDLE", "START">>, <<"START", "ROUTED">>, <<"ROUTED", "DONE">>,
                                 <<"START", "RAISED">>, <<"ROUTED", "RAISED">>}
    /\ visited'[r] # visited[r] => pc'[r] # pc[r]
    /\ pc[r] = "DONE" =>
          /\ pc'[r] = "DONE"
          /\ visited'[r] = visited[r]
          /\ state'[r] = state[r]
          /\ goto'[r] = goto[r]
          /\ response'[r] = response[r]

C3_SinglePass ==
    /\ [](\A r \in Runs : C3_Shape(r))
    /\ [][\A r \in Runs : C3_Order(r)]_vars

C3_Witness ==
    \E r \in Runs :
        /\ pc[r] = "DONE"
        /\ visited[r] = <<Router, WebSearch>>
        /\ state[r].decision = WebSearch

(* C4: decision is empty until the router completes and keeps the value    *)
(* the router gave it in every later state of the run; documents is empty  *)
(* until the chosen responder completes and is written exactly once, by    *)
(* that responder.                                                         *)
WritesOf(r, key) == {i \in 1..Len(writes[r]) : key \in writes[r][i].keys}

C4_Shape(r) ==
    /\ pc[r] \in {"IDLE", "START"} => state[r].decision = <<>> /\ WritesOf(r, "decision") = {}
    /\ (pc[r] = "RAISED" /\ Len(visited[r]) = 1) => state[r].decision = <<>>
    /\ \A i \in WritesOf(r, "decision") : i = 1 /\ writes[r][i].node = Router
    /\ pc[r] \in {"IDLE", "START", "ROUTED", "RAISED"} =>
          state[r].documents = <<>> /\ WritesOf(r, "documents") = {}
    /\ pc[r] = "DONE" =>
          /\ Cardinality(WritesOf(r, "documents")) = 1
          /\ \A i \in WritesOf(r, "documents") : writes[r][i].node = state[r].decision
          /\ Cardinality(WritesOf(r, "decision")) = 1

C4_Keeps(r) ==
    (state[r].decision # <<>> /\ pc'[r] # "START") => state'[r].decision = state[r].decision

C4_DecisionAndDocumentsWrittenOnce ==
    /\ [](\A r \in Runs : C4_Shape(r))
    /\ [][\A r \in Runs : C4_Keeps(r)]_vars

C4_Witness ==
    \E r \in Runs :
        /\ pc[r] = "DONE"
        /\ state[r].decision = WebSearch
        /\ state[r].documents # <<>>
        /\ Len(writes[r]) = 2


(* The responder of run r was entered and it was node n *)
Dispatched(r, n) == Len(visited[r]) >= 2 /\ visited[r][2] = n

(* C5: when the router chose web_search and the search-provider call       *)
(* raises, run_agent does not raise: the record has a non-empty result     *)
(* describing the error, no sources and decision web_search, and POST      *)
(* /chat answers with status success, not with a 500.                      *)
C5_ProviderFailureIsAnAnswer ==
    \A r \in Runs :
        (Dispatched(r, WebSearch) /\ Len(calls[r]) >= 2
            /\ calls[r][2].svc = "tavily" /\ ~calls[r][2].ok)
            => /\ pc[r] = "DONE"
               /\ response[r].code = 200
               /\ response[r].body.status = "success"
               /\ response[r].body.result # <<>>
               /\ response[r].body.result = ErrorPrefix \o calls[r][2].text
               /\ response[r].body.sources = <<>>
               /\ response[r].body.decision = WebSearch

C5_Witness ==
    \E r \in Runs :
        /\ Dispatched(r, WebSearch)
        /\ calls[r] = <<Returned("llm", WebSearch, <<>>), Raised("tavily", <<>>)>>
        /\ response[r].code = 200
        /\ response[r].body.result = ErrorPrefix

(* C6: on the retrieval path the sources returned are at most 3, and none  *)
(* only if the store is empty: for a store of n passages they are min(n,3) *)
(* labels, one per retrieved passage, in retrieval order, none removed.    *)
C6_RetrievalSources ==
    \A r \in Runs :
        (pc[r] = "DONE" /\ Dispatched(r, RagSearch))
            => LET sources == response[r].body.sources
                   retrieved == calls[r][2].data
               IN  /\ Len(sources) <= 3
                   /\ Len(sources) = 0 => vectorstore = <<>>
                   /\ Len(sources) = Min(Len(vectorstore), 3)
                   /\ Len(sources) = Len(retrieved)
                   /\ \A i \in 1..Len(sources) : sources[i] = retrieved[i].metadata.source

C6_Witness ==
    \E r \in Runs :
        /\ pc[r] = "DONE"
        /\ Dispatched(r, RagSearch)
        /\ Len(vectorstore) > 3
        /\ response[r].body.sources = <<"langgraph_guide.txt", "chroma_overview.txt", "fastapi_docs.txt">>

(* C7: on the web-search path, when the provider call and the synthesis    *)
(* call both succeed, sources is the list of the results' URLs, one entry  *)
(* per result in the provider's order, and decision is web_search.         *)
C7_WebSources ==
    \A r \in Runs :
        (Dispatched(r, WebSearch) /\ Len(calls[r]) = 3 /\ calls[r][2].ok /\ calls[r][3].ok)
            => LET sources == response[r].body.sources
                   results == dict_get(calls[r][2].data, "results", <<>>)
               IN  /\ pc[r] = "DONE"
                   /\ response[r].code = 200
                   /\ response[r].body.decision = WebSearch
                   /\ Len(sources) = Len(results)
                   /\ \A i \in 1..Len(results) :
                          "url" \in DOMAIN results[i] => sources[i] = results[i].url

C7_Witness ==
    \E r \in Runs :
        /\ Dispatched(r, WebSearch)
        /\ Len(calls[r]) = 3
        /\ calls[r][3].ok
        /\ calls[r][2].data = [results |-> <<[url |-> "https://b.example", content |-> "snippet"],
                                             [url |-> "https://a.example", content |-> "snippet"]>>]
        /\ response[r].body.sources = <<"https://b.example", "https://a.example">>

(* C8: a failure of the router's language-model call, of the store search  *)
(* or of the retrieval responder's language-model call is not caught in    *)
(* the agent: run_agent raises, no record is produced (after a router      *)
(* failure no responder is entered), and POST /chat answers 500 with an    *)
(* error detail instead of a ChatResponse.                                 *)
C8_Answered500(r, err) ==
    /\ pc[r] = "RAISED"
    /\ response[r].code = 500
    /\ response[r].body = <<>>
    /\ response[r].detail = DetailPrefix \o err
    /\ state[r].result = <<>>
    /\ state[r].documents = <<>>
    /\ completed = <<>>

C8_TransportFailurePropagates ==
    \A r \in Runs :
        /\ (Len(calls[r]) >= 1 /\ ~calls[r][1].ok)
              => C8_Answered500(r, calls[r][1].text) /\ visited[r] = <<Router>> /\ Len(calls[r]) = 1
        /\ \A i \in 2..Len(calls[r]) :
              (Dispatched(r, RagSearch) /\ ~calls[r][i].ok)
                  => C8_Answered500(r, calls[r][i].text) /\ i = Len(calls[r])

C8_Witness ==
    \E r \in Runs :
        /\ pc[r] = "RAISED"
        /\ visited[r] = <<Router, RagSearch>>
        /\ Len(calls[r]) = 3
        /\ calls[r][2].ok
        /\ calls[r][3] = Raised("llm", TimeoutText)
        /\ response[r].code = 500


(* What run_agent and chat() make of query q alone, given the replies in   *)
(* log to the external calls issued so far                                 *)
Alone(q, log) ==
    LET s0 == initial_state(q)
        c1 == router_node(s0, log[1])
        s1 == merge(s0, c1.update)
        c2 == IF c1.goto = RagSearch
              THEN rag_search_node(s1, log[2], IF Len(log) >= 3 THEN log[3] ELSE NoCall)
              ELSE web_search_node(s1, log[2], IF Len(log) >= 3 THEN log[3] ELSE NoCall)
        s2 == merge(s1, c2.update)
    IN  IF Len(log) = 0 THEN [state |-> s0, pc |-> "START", response |-> NoResponse]
        ELSE IF c1.raised THEN [state |-> s0, pc |-> "RAISED", response |-> HTTPException(c1.error)]
        ELSE IF Len(log) = 1 THEN [state |-> s1, pc |-> "ROUTED", response |-> NoResponse]
        ELSE IF c2.raised THEN [state |-> s1, pc |-> "RAISED", response |-> HTTPException(c2.error)]
        ELSE [state |-> s2, pc |-> "DONE", response |-> ChatResponse(run_agent_response(s2))]

(* C9: with requests served concurrently, in any interleaving of their     *)
(* router and responder steps, every request gets the record it would get  *)
(* alone with the same external replies: a step of one request leaves the  *)
(* state of the others as it is, and the document store never changes.     *)
C9_AsAlone(r) ==
    pc[r] # "IDLE" =>
        LET alone == Alone(state[r].query, calls[r])
        IN  /\ state[r] = alone.state
            /\ pc[r] = alone.pc
            /\ response[r] = alone.response

C9_Frame(r) ==
    (visited'[r] = visited[r] /\ pc'[r] = pc[r]) =>
        /\ state'[r] = state[r]
        /\ goto'[r] = goto[r]
        /\ calls'[r] = calls[r]
        /\ writes'[r] = writes[r]
        /\ response'[r] = response[r]

C9_RequestsIsolated ==
    /\ [](\A r \in Runs : C9_AsAlone(r))
    /\ [][(\A r \in Runs : C9_Frame(r)) /\ vectorstore' = vectorstore]_vars

C9_Witness ==
    \E r1, r2 \in Runs :
        /\ r1 # r2
        /\ pc[r1] = "DONE"
        /\ pc[r2] = "ROUTED"
        /\ state[r1].query # state[r2].query
        /\ state[r1].decision = WebSearch
        /\ state[r2].decision = RagSearch
        /\ response[r1].body.decision = WebSearch
        /\ Len(response[r1].body.sources) = 2

(* C10: with a deterministic classifier and an unchanged store, runs of    *)
(* run_agent on the same query yield the same decision: an earlier run     *)
(* leaves nothing behind that changes the decision of a later one.         *)
C10_SameQuerySameDecision ==
    \A i, j \in 1..Len(completed) :
        completed[i].query = completed[j].query => completed[i].decision = completed[j].decision

C10_Witness ==
    /\ Len(completed) = 2
    /\ completed[1].query = completed[2].query
    /\ completed[1].decision = WebSearch
    /\ completed[2].decision = WebSearch
    /\ pc[1] = "DONE"

(* C11: provided every external call returns or raises, a run that has     *)
(* begun eventually reaches DONE and returns a record, or ends by raising; *)
(* it never stays in START or ROUTED forever.                              *)
C11_RunsToCompletion ==
    \A r \in 1..NReq :
        (pc[r] \in {"START", "ROUTED"}) ~> (pc[r] \in {"DONE", "RAISED"} /\ response[r].code # 0)

C11_Witness ==
    /\ pc[1] = "DONE"
    /\ response[1].code = 200
    /\ pc[2] = "RAISED"
    /\ response[2].code = 500
    /\ visited[2] = <<Router, RagSearch>>

CallsTo(r, svc) == {i \in 1..Len(calls[r]) : calls[r][i].svc = svc}

(* C12: no external call is retried.  In a run the router makes exactly    *)
(* one language-model call, the responder at most one synthesis call; the  *)
(* retrieval path makes exactly one store search and no provider call, the *)
(* web-search path exactly one provider call and no store search; and once *)
(* a call has failed the run issues no further call.                       *)
C12_NoRetries ==
    \A r \in Runs :
        /\ Len(visited[r]) = 0 => calls[r] = <<>>
        /\ Len(visited[r]) = 1 => Len(calls[r]) = 1
        /\ Len(visited[r]) >= 1 => calls[r][1].svc = "llm"
        /\ Len(visited[r]) <= 2
        /\ Cardinality(CallsTo(r, "llm")) <= 2
        /\ Dispatched(r, RagSearch) =>
              /\ Len(calls[r]) \in {2, 3}
              /\ calls[r][2].svc = "store"
              /\ Cardinality(CallsTo(r, "store")) = 1
              /\ CallsTo(r, "tavily") = {}
        /\ Dispatched(r, WebSearch) =>
              /\ Len(calls[r]) \in {2, 3}
              /\ calls[r][2].svc = "tavily"
              /\ Cardinality(CallsTo(r, "tavily")) = 1
              /\ CallsTo(r, "store") = {}
        /\ Len(calls[r]) = 3 => calls[r][3].svc = "llm"
        /\ \A i \in 1..(Len(calls[r]) - 1) : calls[r][i].ok

C12_Witness ==
    \E r \in Runs :
        /\ Dispatched(r, WebSearch)
        /\ pc[r] = "DONE"
        /\ Len(calls[r]) = 2
        /\ calls[r][2] = Raised("tavily", TimeoutText)
        /\ CallsTo(r, "llm") = {1}

(* The synthesis call of the responder of run r raised, its search having *)
(* returned                                                                *)
SynthesisFailed(r) == Len(calls[r]) = 3 /\ calls[r][2].ok /\ ~calls[r][3].ok

(* C13: on the web-search path an exception of the synthesis call, after   *)
(* the provider succeeded, is caught like a provider failure: run_agent    *)
(* returns the error-describing result, no sources (the provider's URLs    *)
(* are dropped) and decision web_search; the same failure on the retrieval *)
(* path makes run_agent raise.                                             *)
C13_SynthesisFailure ==
    \A r \in Runs :
        /\ (Dispatched(r, WebSearch) /\ SynthesisFailed(r))
              => /\ pc[r] = "DONE"
                 /\ response[r].code = 200
                 /\ response[r].body.result = ErrorPrefix \o calls[r][3].text
                 /\ response[r].body.sources = <<>>
                 /\ response[r].body.decision = WebSearch
        /\ (Dispatched(r, RagSearch) /\ SynthesisFailed(r))
              => /\ pc[r] = "RAISED"
                 /\ response[r].code = 500
                 /\ response[r].detail = DetailPrefix \o calls[r][3].text

C13_Witness ==
    \E r \in Runs :
        /\ Dispatched(r, WebSearch)
        /\ SynthesisFailed(r)
        /\ Len(dict_get(calls[r][2].data, "results", <<>>)) = 2
        /\ "url" \in DOMAIN calls[r][2].data.results[1]
        /\ response[r].code = 200
        /\ response[r].body.sources = <<>>
        /\ response[r].body.result = ErrorPrefix \o TimeoutText

(* C14: every submitted query appends one user message followed by one     *)
(* assistant message, whether the backend answered 200, answered an error, *)
(* timed out or was unreachable; so after any submissions and clears, once *)
(* no script run is in progress, the history has even length and           *)
(* alternates user, assistant, starting with user, and it is empty right   *)
(* after a clear.                                                          *)
C14_HistoryPairs ==
    script = "idle" =>
        /\ Len(messages) % 2 = 0
        /\ \A i \in 1..Len(messages) :
              messages[i].role = IF i % 2 = 1 THEN "user" ELSE "assistant"
        /\ event = "clear" => messages = <<>>

====
